---- MODULE Spec2Model ----
(***************************************************************************)
(* State-machine model of the chauffeur authentication service:            *)
(*   src/app/auth/google_oauth.py  (Google OAuth sign-in, reconciliation)  *)
(*   src/app/auth/basic_auth.py    (e-mail/password sign-up and sign-in,   *)
(*                                  verification mails, token exchange)    *)
(*   src/main.py                   (e-mail verification callback)          *)
(* The Firebase identity backend is the environment: its user store is     *)
(* the variable `users`, and every handler reaches it one blocking call at *)
(* a time.  The workers are the server processes that serve requests side  *)
(* by side: their handlers interleave between two backend calls, and a     *)
(* single backend call is atomic.  A backend write, a token minting and a  *)
(* mail dispatch may fail; backend reads do not.                           *)
(***************************************************************************)
EXTENDS Integers, FiniteSets, Sequences, TLC

VARIABLES env, users, sessions, nextUid, outbox, pc, req, resp, started

vars == <<env, users, sessions, nextUid, outbox, pc, req, resp, started>>

\* ------------------------------------------------------------------ bounds
\* Requests served in one run; a request creates at most one account, so
\* this also bounds the uids the backend hands out.
MaxRequests == 3

Workers == {"w1", "w2"}
Emails == {"A@x.com", "a@x.com"}
Subjects == {"g-1", "g-2"}
Uids == 1..MaxRequests

NoUid == 0
\* No refresh token (`None` in a response body).
NoSession == 0
NoEmail == "-"
NoSub == "-"
NoPassword == "-"
Passwords == {"pw123456", "12345"}
\* The passwords auth.create_user rejects with a ValueError.
WeakPasswords == {"12345"}

\* ------------------------------------------------------- program constants
GoogleProvider == "google.com"
AcceptedIssuers == {"accounts.google.com", "https://accounts.google.com"}
ConfiguredClientId == "client-1"

\* --------------------------------------------------------------- ID tokens
\* A Google ID token as the verifier sees it: whether signature and expiry
\* check out, its issuer, its audience, and the claims sub / email /
\* email_verified ("absent" when the claim is missing from the token).
NoToken == [sig_ok |-> FALSE, iss |-> "-", aud |-> "-", sub |-> NoSub,
            email |-> NoEmail, email_verified |-> "absent"]

GoodTokens ==
    [sig_ok : {TRUE}, iss : AcceptedIssuers, aud : {ConfiguredClientId},
     sub : Subjects, email : Emails, email_verified : {"true", "false", "absent"}]

BadTokens ==
    [sig_ok : {FALSE}, iss : {"accounts.google.com"}, aud : {ConfiguredClientId},
     sub : {"g-1"}, email : {"A@x.com"}, email_verified : {"true"}]
    \cup
    [sig_ok : {TRUE}, iss : {"evil.example"}, aud : {ConfiguredClientId},
     sub : {"g-1"}, email : {"A@x.com"}, email_verified : {"true"}]
    \cup
    [sig_ok : {TRUE}, iss : {"accounts.google.com"}, aud : {"client-2"},
     sub : {"g-1"}, email : {"A@x.com"}, email_verified : {"true"}]

\* The tokens requests are drawn from: every well-formed token of one issuer
\* spelling with email_verified true or false, one with the other issuer
\* spelling, one without the email_verified claim, and the rejected ones.
Tokens ==
    {t \in GoodTokens :
        \/ t.iss = "accounts.google.com" /\ t.email_verified # "absent"
        \/ t.iss = "https://accounts.google.com" /\ t.sub = "g-1"
             /\ t.email = "A@x.com" /\ t.email_verified = "true"
        \/ t.iss = "accounts.google.com" /\ t.sub = "g-2"
             /\ t.email = "a@x.com" /\ t.email_verified = "absent"}
    \cup BadTokens

\* One subject under the usual issuer spelling, and one rejected token.
TokensCore ==
    {t \in Tokens : \/ /\ t.sig_ok /\ t.iss = "accounts.google.com"
                       /\ t.aud = ConfiguredClientId /\ t.sub = "g-1"
                       /\ t.email_verified # "absent"
                    \/ ~t.sig_ok}

\* The accepted tokens that assert a verified e-mail.
TokensVerified ==
    {t \in Tokens : /\ t.sig_ok /\ t.iss = "accounts.google.com"
                    /\ t.aud = ConfiguredClientId
                    /\ t.email_verified = "true"}

\* Mutant of ClaimEmailVerified: a token without the claim counts as
\* verified.
ClaimEmailVerifiedDefaultTrue(tok) == tok.email_verified # "false"

\* google_user_info.get('email_verified', False)
ClaimEmailVerified(tok) == tok.email_verified = "true"

\* ------------------------------------------------------------ the backend
\* One user record of the identity backend.
UserRecord(email, email_verified, password) ==
    [email |-> email, email_verified |-> email_verified,
     password |-> password, provider_data |-> {}]

ProviderData(provider, provider_uid) ==
    [provider_id |-> provider, uid |-> provider_uid]

\* auth.get_user_by_email: the uids holding the e-mail (compared exactly);
\* empty when the call raises UserNotFoundError.
GetUserByEmail(email) == {u \in DOMAIN users : users[u].email = email}

\* auth.get_user: does the uid exist.
UserExists(uid) == uid \in DOMAIN users

\* Mutant of EmailAlreadyExists: no uniqueness error is ever raised.
EmailAlreadyExistsNever(email) == FALSE

\* auth.create_user raises EmailAlreadyExistsError for a taken e-mail.
EmailAlreadyExists(email) == GetUserByEmail(email) # {}

\* The store after auth.create_user succeeded with a fresh uid.
CreateUser(email, email_verified, password) ==
    [u \in DOMAIN users \cup {nextUid} |->
        IF u = nextUid THEN UserRecord(email, email_verified, password)
        ELSE users[u]]

\* The store after auth.link_provider_with_uid(uid, ProviderConfig(...))
\* succeeded: the record gains the provider entry.  The handler passes the
\* pair through unchecked and handles no uniqueness error from the call.
LinkProviderWithUid(uid, provider, provider_uid) ==
    [users EXCEPT ![uid].provider_data =
        @ \cup {ProviderData(provider, provider_uid)}]

\* The store after auth.delete_user(uid).
DeleteUserRecord(uid) == [u \in DOMAIN users \ {uid} |-> users[u]]

\* ------------------------------------------------------- request plumbing
\* The locals of the handler a worker runs.  `did` collects the backend
\* writes the request has performed so far ("create", "link").
NoReq == [op |-> "none", tok |-> NoToken, email |-> NoEmail, sub |-> NoSub,
          email_verified |-> FALSE, password |-> NoPassword,
          uid |-> NoUid, rec_verified |-> FALSE, id_token |-> NoUid,
          mode |-> "-", did |-> {}, presented |-> NoSession]

NoResp == [status |-> 0, detail |-> "-", uid |-> NoUid,
           email_verified |-> FALSE, token |-> "none", token_uid |-> NoUid,
           refresh_token |-> NoSession, provider |-> "-",
           valid |-> FALSE, user_exists |-> FALSE]

\* A worker takes the next request when it is not serving one.
Free(w) == pc[w] \in {"idle", "done"} /\ started < MaxRequests

Accept(w, r) ==
    /\ started' = started + 1
    /\ req' = [req EXCEPT ![w] = r]
    /\ resp' = [resp EXCEPT ![w] = NoResp]

\* The handler returns: its locals die, the worker holds the response until
\* it takes the next request.
Reply(w, r) ==
    /\ pc' = [pc EXCEPT ![w] = "done"]
    /\ resp' = [resp EXCEPT ![w] = r]
    /\ req' = [req EXCEPT ![w].uid = NoUid, ![w].rec_verified = FALSE,
                          ![w].id_token = NoUid]

Goto(w, label) ==
    /\ pc' = [pc EXCEPT ![w] = label]
    /\ resp' = resp

HttpError(status, detail) == [NoResp EXCEPT !.status = status, !.detail = detail]

InitStore ==
    /\ users = <<>>
    /\ sessions = <<>>
    /\ nextUid = 1
    /\ outbox = {}
    /\ pc = [w \in Workers |-> "idle"]
    /\ req = [w \in Workers |-> NoReq]
    /\ resp = [w \in Workers |-> NoResp]
    /\ started = 0

\* The process starts with whatever environment it was given.
Init ==
    /\ env \in [GOOGLE_OAUTH_CLIENT_ID : BOOLEAN, FIREBASE_API_KEY : BOOLEAN]
    /\ InitStore

\* --------------------------------------------------- Google OAuth sign-in
\* POST /google/signin arrives at a free worker.
GoogleSigninStart(w, toks) ==
    /\ Free(w)
    /\ \E tok \in toks :
          Accept(w, [NoReq EXCEPT !.op = "google", !.tok = tok])
    /\ pc' = [pc EXCEPT ![w] = "verify"]
    /\ UNCHANGED <<env, sessions, users, nextUid, outbox>>

\* Mutant of VerifyOauth2Token: the library is called without an audience
\* and checks none.
VerifyOauth2TokenNoAudience(tok, client_id) == tok.sig_ok

\* id_token.verify_oauth2_token: signature, expiry and audience.
VerifyOauth2Token(tok, client_id) == tok.sig_ok /\ tok.aud = client_id

\* Mutant of IssuerAccepted: the issuer check is missing.
IssuerAcceptedAny(tok) == TRUE

\* The issuer check of verify_google_token.
IssuerAccepted(tok) == tok.iss \in AcceptedIssuers

\* Mutant of VerifyGoogleTokenStatus: the missing client id is reported the
\* way a rejected token is.
VerifyGoogleTokenStatusConfigAs401(tok) ==
    IF ~env.GOOGLE_OAUTH_CLIENT_ID THEN 401
    ELSE IF ~VerifyOauth2Token(tok, ConfiguredClientId) THEN 401
    ELSE IF ~IssuerAccepted(tok) THEN 401
    ELSE 200

\* verify_google_token: the status it ends with (200 = idinfo returned).
\* The client id is read inside the try block: the 500 of
\* get_environment_variable is caught by `except Exception` and raised again
\* as a 500.
VerifyGoogleTokenStatus(tok) ==
    IF ~env.GOOGLE_OAUTH_CLIENT_ID THEN 500
    ELSE IF ~VerifyOauth2Token(tok, ConfiguredClientId) THEN 401
    ELSE IF ~IssuerAccepted(tok) THEN 401
    ELSE 200

VerifyGoogleTokenDetail(tok) ==
    IF ~env.GOOGLE_OAUTH_CLIENT_ID
    THEN "Error verifying Google token: Google OAuth client ID not configured"
    ELSE IF ~VerifyOauth2Token(tok, ConfiguredClientId)
         THEN "Token verification failed"
    ELSE IF ~IssuerAccepted(tok) THEN "Token verification failed: Wrong issuer."
    ELSE "ok"

\* str.lower() on the e-mails of the model.
Lower(email) == IF email = "A@x.com" THEN "a@x.com" ELSE email

\* Mutant of UserInfoEmail: the e-mail is lower-cased before it is used.
UserInfoEmailLowered(tok) == Lower(tok.email)

\* google_signin, line 40: the e-mail of user_info is the token's claim as
\* it stands.
UserInfoEmail(tok) == tok.email

\* google_signin, line 36 to 44: verify the token, extract user_info.
VerifyGoogleToken(w) ==
    /\ pc[w] = "verify"
    /\ LET tok == req[w].tok
           status == VerifyGoogleTokenStatus(tok) IN
       IF status = 200
       THEN /\ req' = [req EXCEPT ![w].email = UserInfoEmail(tok),
                                  ![w].sub = tok.sub,
                                  ![w].email_verified = ClaimEmailVerified(tok)]
            /\ Goto(w, "lookup")
       ELSE Reply(w, HttpError(status, VerifyGoogleTokenDetail(tok)))
    /\ UNCHANGED <<env, sessions, users, nextUid, outbox, started>>

\* Mutant of HasProviderLinked: the loop never returns.
HasProviderLinkedNever(rec, provider, provider_uid) == FALSE

\* The loop over user_record.provider_data: is this exact pair linked.
HasProviderLinked(rec, provider, provider_uid) ==
    \E pd \in rec.provider_data :
        pd.provider_id = provider /\ pd.uid = provider_uid

\* get_or_create_firebase_user, line 122 to 128: look the e-mail up and
\* inspect the record returned.
LookupUser(w) ==
    /\ pc[w] = "lookup"
    /\ \/ \E u \in GetUserByEmail(req[w].email) :
            /\ req' = [req EXCEPT ![w].uid = u,
                                  ![w].rec_verified = users[u].email_verified]
            /\ IF HasProviderLinked(users[u], GoogleProvider, req[w].sub)
               THEN Goto(w, "mint")
               ELSE Goto(w, "link")
       \/ /\ GetUserByEmail(req[w].email) = {}
          /\ req' = req
          /\ Goto(w, "create")
    /\ UNCHANGED <<env, sessions, users, nextUid, outbox, started>>

\* Mutant of LinkFoundUser: linking also overwrites email_verified with the
\* token's claim.
LinkFoundUserSyncsVerified(w) ==
    [LinkProviderWithUid(req[w].uid, GoogleProvider, req[w].sub)
        EXCEPT ![req[w].uid].email_verified = req[w].email_verified]

\* Mutant of LinkFoundUser: the account found is returned without the link.
LinkFoundUserSkips(w) == users

\* Mutant of LinkFoundUser: the new provider entry takes the place of the
\* entries the account had.
LinkFoundUserReplaces(w) ==
    [users EXCEPT ![req[w].uid].provider_data =
        {ProviderData(GoogleProvider, req[w].sub)}]

\* The store after line 131 to 137 linked the provider to the account found:
\* nothing but the provider entry changes.
LinkFoundUser(w) ==
    LinkProviderWithUid(req[w].uid, GoogleProvider, req[w].sub)

\* get_or_create_firebase_user, line 131 to 138: link the provider to the
\* account found.  UserNotFoundError (the account was deleted meanwhile) is
\* caught by the handler of line 140, any other failure by line 164.
LinkExistingUser(w) ==
    /\ pc[w] = "link"
    /\ \/ /\ UserExists(req[w].uid)
          /\ users' = LinkFoundUser(w)
          /\ req' = [req EXCEPT ![w].did = @ \cup {"link"}]
          /\ Goto(w, "mint")
       \/ /\ ~UserExists(req[w].uid)
          /\ UNCHANGED <<users, req>>
          /\ Goto(w, "create")
       \/ /\ UNCHANGED users
          /\ Reply(w, HttpError(500, "Error managing user"))
    /\ UNCHANGED <<env, sessions, nextUid, outbox, started>>

\* get_or_create_firebase_user, line 140 to 152: create the account.  An
\* exception raised here is raised inside an except clause, so line 164 does
\* not catch it: it reaches google_signin's line 70.
CreateOAuthUser(w) ==
    /\ pc[w] = "create"
    /\ \/ /\ ~EmailAlreadyExists(req[w].email)
          /\ users' = CreateUser(req[w].email, req[w].email_verified, NoPassword)
          /\ nextUid' = nextUid + 1
          /\ req' = [req EXCEPT ![w].uid = nextUid,
                                ![w].rec_verified = req[w].email_verified,
                                ![w].did = @ \cup {"create"}]
          /\ Goto(w, "link_new")
       \/ /\ EmailAlreadyExists(req[w].email)
          /\ UNCHANGED <<users, nextUid>>
          /\ Reply(w, HttpError(500, "Error during Google signin: EMAIL_EXISTS"))
       \/ /\ UNCHANGED <<users, nextUid>>
          /\ Reply(w, HttpError(500, "Error during Google signin"))
    /\ UNCHANGED <<env, sessions, outbox, started>>

\* get_or_create_firebase_user, line 154 to 163: link the provider to the
\* account just created; a failure reaches google_signin's line 70.
LinkNewUser(w) ==
    /\ pc[w] = "link_new"
    /\ \/ /\ UserExists(req[w].uid)
          /\ users' = LinkProviderWithUid(req[w].uid, GoogleProvider, req[w].sub)
          /\ req' = [req EXCEPT ![w].did = @ \cup {"link"}]
          /\ Goto(w, "mint")
       \/ /\ UNCHANGED users
          /\ Reply(w, HttpError(500, "Error during Google signin"))
    /\ UNCHANGED <<env, sessions, nextUid, outbox, started>>

\* google_signin, line 62: the provider named in the answer.
OAuthResponseProvider == "google"

\* google_signin, line 53 to 66: mint the custom token and answer with the
\* record that reconciliation returned.
MintOAuthToken(w) ==
    /\ pc[w] = "mint"
    /\ \/ Reply(w, [NoResp EXCEPT
                        !.status = 200, !.detail = "ok", !.uid = req[w].uid,
                        !.email_verified = req[w].rec_verified,
                        !.token = "custom", !.token_uid = req[w].uid,
                        !.provider = OAuthResponseProvider])
       \/ Reply(w, HttpError(500, "Error during Google signin"))
    /\ UNCHANGED <<env, sessions, users, nextUid, outbox, started>>

\* ------------------------------------------------- e-mail/password sign-up
\* auth.create_user raises ValueError for a password it finds too weak.
PasswordAccepted(password) == password \notin WeakPasswords

\* accounts:signInWithPassword: the uids the e-mail and password sign in.
SignInWithPassword(email, password) ==
    {u \in GetUserByEmail(email) : users[u].password = password}

\* POST /signup arrives at a free worker.
SignupStart(w, emails) ==
    /\ Free(w)
    /\ \E email \in emails, password \in Passwords :
          Accept(w, [NoReq EXCEPT !.op = "signup", !.email = email,
                                  !.password = password])
    /\ pc' = [pc EXCEPT ![w] = "su_create"]
    /\ UNCHANGED <<env, sessions, users, nextUid, outbox>>

\* signup, line 44 to 54 and the except clauses of line 104 to 112.
SignupCreateUser(w) ==
    /\ pc[w] = "su_create"
    /\ IF ~PasswordAccepted(req[w].password)
       THEN /\ UNCHANGED <<users, nextUid>>
            /\ Reply(w, HttpError(400, "Password is too weak"))
       ELSE \/ /\ EmailAlreadyExists(req[w].email)
               /\ UNCHANGED <<users, nextUid>>
               /\ Reply(w, HttpError(400, "Email already exists"))
            \/ /\ ~EmailAlreadyExists(req[w].email)
               /\ users' = CreateUser(req[w].email, FALSE, req[w].password)
               /\ nextUid' = nextUid + 1
               /\ req' = [req EXCEPT ![w].uid = nextUid,
                                     ![w].rec_verified = FALSE,
                                     ![w].did = @ \cup {"create"}]
               /\ Goto(w, "su_signin")
            \/ /\ UNCHANGED <<users, nextUid>>
               /\ Reply(w, HttpError(500, "Error creating user"))
    /\ UNCHANGED <<env, sessions, outbox, started>>

\* Mutant of VerificationEmailFailed: the failure is raised to line 111.
VerificationEmailFailedRaises(w) ==
    Reply(w, HttpError(500, "Error creating user"))

\* signup, line 82 to 89: the dispatch failed (the API key is missing, the
\* backend answered other than 200, or an exception was raised); the failure
\* is printed and the handler goes on to line 92.
VerificationEmailFailed(w) ==
    /\ req' = req
    /\ Goto(w, "su_mint")

\* signup, line 57 to 72 and 84 to 89: read the API key and trade the
\* password for an ID token.  Whatever goes wrong is printed, and the
\* handler goes on to line 92.
SignupGetIdToken(w) ==
    /\ pc[w] = "su_signin"
    /\ \/ /\ env.FIREBASE_API_KEY
          /\ \E u \in SignInWithPassword(req[w].email, req[w].password) :
                req' = [req EXCEPT ![w].id_token = u]
          /\ Goto(w, "su_send")
       \/ VerificationEmailFailed(w)
    /\ UNCHANGED <<env, sessions, users, nextUid, outbox, started>>

\* signup, line 74 to 83: accounts:sendOobCode with the ID token.  The
\* mail goes out to the account the ID token names; a rejection or an
\* exception is printed.
SignupSendOobCode(w) ==
    /\ pc[w] = "su_send"
    /\ \/ /\ UserExists(req[w].id_token)
          /\ outbox' = outbox \cup {req[w].id_token}
          /\ req' = req
          /\ Goto(w, "su_mint")
       \/ /\ outbox' = outbox
          /\ VerificationEmailFailed(w)
    /\ UNCHANGED <<env, sessions, users, nextUid, started>>

\* signup, line 91 to 102: mint the custom token and answer; a failure is
\* caught by line 111.
SignupMintToken(w) ==
    /\ pc[w] = "su_mint"
    /\ \/ Reply(w, [NoResp EXCEPT
                        !.status = 200, !.detail = "ok", !.uid = req[w].uid,
                        !.email_verified = req[w].rec_verified,
                        !.token = "custom", !.token_uid = req[w].uid])
       \/ Reply(w, HttpError(500, "Error creating user"))
    /\ UNCHANGED <<env, sessions, users, nextUid, outbox, started>>

Signup(w) ==
    \/ SignupCreateUser(w)
    \/ SignupGetIdToken(w)
    \/ SignupSendOobCode(w)
    \/ SignupMintToken(w)

\* ----------------------------------------------------- e-mail verification
\* auth.verify_action_code: the out-of-band code mailed to an account is
\* accepted while that account exists.
ActionCodeValid(oobCode) == oobCode \in outbox /\ UserExists(oobCode)

\* The store after the backend applied an e-mail verification code.
ApplyActionCode(uid) ==
    [users EXCEPT ![uid].email_verified = TRUE]

\* Mutant of VerifyEmailPage: the record's email_verified is not looked at.
VerifyEmailPageAlwaysSuccess(rec) == "Email Verified Successfully!"

\* The page verify_email_callback answers with once the code checked out:
\* it reads the record and reports by its email_verified.
VerifyEmailPage(rec) ==
    IF rec.email_verified THEN "Email Already Verified"
    ELSE "Email Verified Successfully!"

Page(detail) == [NoResp EXCEPT !.status = 200, !.detail = detail]

\* GET /verify-email?mode=..&oobCode=.. arrives at a free worker.
VerifyEmailCallbackStart(w) ==
    /\ Free(w)
    /\ \E mode \in {"verifyEmail", "resetPassword"}, oobCode \in Uids \cup {NoUid} :
          Accept(w, [NoReq EXCEPT !.op = "verify_email", !.mode = mode,
                                  !.uid = oobCode])
    /\ pc' = [pc EXCEPT ![w] = "ve_check"]
    /\ UNCHANGED <<env, sessions, users, nextUid, outbox>>

\* verify_email_callback.  The handler writes nothing itself; whether the
\* backend marks the address verified when it accepts the code is the
\* backend's business, and both outcomes are modelled.
VerifyEmailCallback(w) ==
    /\ pc[w] = "ve_check"
    /\ LET oobCode == req[w].uid IN
       IF ~(req[w].mode = "verifyEmail" /\ oobCode # NoUid)
       THEN /\ users' = users
            /\ Reply(w, Page("Invalid Verification Link"))
       ELSE IF ~ActionCodeValid(oobCode)
       THEN /\ users' = users
            /\ Reply(w, Page("Verification Failed"))
       ELSE \E applied \in BOOLEAN :
            /\ users' = IF applied THEN ApplyActionCode(oobCode) ELSE users
            /\ \E u \in {x \in DOMAIN users' :
                            users'[x].email = users[oobCode].email} :
                  Reply(w, [Page(VerifyEmailPage(users'[u])) EXCEPT
                               !.uid = u,
                               !.email_verified = users'[u].email_verified])
    /\ UNCHANGED <<env, sessions, nextUid, outbox, started>>

\* Mutant of RequireVerificationStatus: the guard lets everyone through.
RequireVerificationStatusAlwaysOk(rec) == 200

\* require_verification: the status it answers for the record read.
RequireVerificationStatus(rec) == IF ~rec.email_verified THEN 403 ELSE 200

\* Mutant of UserNotFoundError: the handler has no clause for the error and
\* `except Exception` raises it as a 500.
UserNotFoundErrorUncaught(w) == HttpError(500, "Error: User not found")

\* `except auth.UserNotFoundError`: the look-up by uid found no account
\* (line 205 to 206, 269 to 270, 288 to 289).
UserNotFoundError(w) == HttpError(404, "User not found")

\* POST /require-verification/{uid} arrives at a free worker.
RequireVerificationStart(w) ==
    /\ Free(w)
    /\ \E uid \in Uids :
          Accept(w, [NoReq EXCEPT !.op = "require_verification", !.uid = uid])
    /\ pc' = [pc EXCEPT ![w] = "rv_get"]
    /\ UNCHANGED <<env, sessions, users, nextUid, outbox>>

\* require_verification
RequireVerification(w) ==
    /\ pc[w] = "rv_get"
    /\ LET uid == req[w].uid IN
       Reply(w, IF ~UserExists(uid) THEN UserNotFoundError(w)
                ELSE IF RequireVerificationStatus(users[uid]) = 403
                THEN [NoResp EXCEPT !.status = 403, !.uid = uid,
                                    !.detail = "Email verification required"]
                ELSE [NoResp EXCEPT !.status = 200, !.uid = uid,
                                    !.detail = "Email is verified",
                                    !.email_verified = TRUE])
    /\ UNCHANGED <<env, sessions, users, nextUid, outbox, started>>

\* GET /check-verification/{uid} arrives at a free worker.
CheckVerificationStart(w) ==
    /\ Free(w)
    /\ \E uid \in Uids :
          Accept(w, [NoReq EXCEPT !.op = "check_verification", !.uid = uid])
    /\ pc' = [pc EXCEPT ![w] = "cv_get"]
    /\ UNCHANGED <<env, sessions, users, nextUid, outbox>>

\* check_verification_status
CheckVerificationStatus(w) ==
    /\ pc[w] = "cv_get"
    /\ LET uid == req[w].uid IN
       Reply(w, IF ~UserExists(uid) THEN UserNotFoundError(w)
                ELSE [NoResp EXCEPT !.status = 200, !.uid = uid,
                         !.detail = "Verification status checked successfully",
                         !.email_verified = users[uid].email_verified])
    /\ UNCHANGED <<env, sessions, users, nextUid, outbox, started>>

\* ------------------------------------------------------- account deletion
\* DELETE /user/{uid} arrives at a free worker.
DeleteUserStart(w) ==
    /\ Free(w)
    /\ \E uid \in Uids :
          Accept(w, [NoReq EXCEPT !.op = "delete_user", !.uid = uid])
    /\ pc' = [pc EXCEPT ![w] = "du_delete"]
    /\ UNCHANGED <<env, sessions, users, nextUid, outbox>>

\* delete_user
DeleteUser(w) ==
    /\ pc[w] = "du_delete"
    /\ LET uid == req[w].uid IN
       IF UserExists(uid)
       THEN /\ users' = DeleteUserRecord(uid)
            /\ Reply(w, [NoResp EXCEPT !.status = 200, !.uid = uid,
                                       !.detail = "User deleted successfully"])
       ELSE /\ users' = users
            /\ Reply(w, HttpError(404, "User not found"))
    /\ UNCHANGED <<env, sessions, nextUid, outbox, started>>

\* ------------------------------------------------- e-mail/password sign-in
\* The error messages accounts:signInWithPassword answers a request with
\* when it does not sign it in: the two the handler knows, the one newer
\* backends give for both of them, and one that does not depend on the
\* credentials.
SignInRejections(email, password) ==
    (IF GetUserByEmail(email) = {}
     THEN {"EMAIL_NOT_FOUND", "INVALID_LOGIN_CREDENTIALS"}
     ELSE IF SignInWithPassword(email, password) = {}
     THEN {"INVALID_PASSWORD", "INVALID_LOGIN_CREDENTIALS"}
     ELSE {})
    \cup {"TOO_MANY_ATTEMPTS_TRY_LATER"}

\* What accounts:signInWithPassword can answer: 200 with an ID token of the
\* account signed in, or an error body with a message.
SignInWithPasswordResponses(email, password) ==
    {[status_code |-> 200, message |-> "-", uid |-> u] :
        u \in SignInWithPassword(email, password)}
    \cup {[status_code |-> 400, message |-> m, uid |-> NoUid] :
            m \in SignInRejections(email, password)}

\* Mutant of ResponseOk: the status of the backend's answer is not looked at.
ResponseOkAlways(status_code) == TRUE

\* signin, line 133: response.status_code != 200 is the error case.
ResponseOk(status_code) == status_code = 200

\* signin, line 134 to 140: the detail of the 400 answer.
SigninErrorDetail(error_message) ==
    IF error_message = "EMAIL_NOT_FOUND" THEN "Email not found"
    ELSE IF error_message = "INVALID_PASSWORD" THEN "Invalid password"
    ELSE error_message

ConfigurationError(description) ==
    HttpError(500, description \o " not configured")

\* Mutant of SigninPayload: the password of the request is not sent.
SigninPayloadNoPassword(w) ==
    [email |-> req[w].email, password |-> NoPassword]

\* signin, line 124 to 128: the payload posted to the backend.
SigninPayload(w) ==
    [email |-> req[w].email, password |-> req[w].password]

\* POST /signin arrives at a free worker.
SigninStart(w) ==
    /\ Free(w)
    /\ \E email \in Emails, password \in Passwords :
          Accept(w, [NoReq EXCEPT !.op = "signin", !.email = email,
                                  !.password = password])
    /\ pc' = [pc EXCEPT ![w] = "si_signin"]
    /\ UNCHANGED <<env, sessions, users, nextUid, outbox>>

\* signin, line 119 to 140: read the API key and trade the password for an
\* ID token.  A failure of the transport is caught by line 157.
SigninWithPassword(w) ==
    /\ pc[w] = "si_signin"
    /\ IF ~env.FIREBASE_API_KEY
       THEN Reply(w, ConfigurationError("Firebase API key"))
       ELSE \/ \E r \in SignInWithPasswordResponses(SigninPayload(w).email,
                                                    SigninPayload(w).password) :
                 IF ~ResponseOk(r.status_code)
                 THEN Reply(w, HttpError(400, SigninErrorDetail(r.message)))
                 ELSE /\ req' = [req EXCEPT ![w].id_token = r.uid]
                      /\ Goto(w, "si_get")
            \/ Reply(w, HttpError(500, "Error signing in"))
    /\ UNCHANGED <<env, sessions, users, nextUid, outbox, started>>

\* Mutant of SigninToken: the handler mints a custom token for the account
\* instead of handing on the token of the exchange.
SigninTokenMinted(w) == "custom"

\* signin, line 152: the token answered is data['idToken'].
SigninToken(w) == "id"

\* signin, line 143 to 153: read the account of the e-mail and answer with
\* it and the ID token; UserNotFoundError (the account was deleted
\* meanwhile) is caught by line 157.
SigninGetUser(w) ==
    /\ pc[w] = "si_get"
    /\ \/ \E u \in GetUserByEmail(req[w].email) :
            Reply(w, [NoResp EXCEPT
                        !.status = 200, !.detail = "ok", !.uid = u,
                        !.email_verified = users[u].email_verified,
                        !.token = SigninToken(w),
                        !.token_uid = req[w].id_token])
       \/ /\ GetUserByEmail(req[w].email) = {}
          /\ Reply(w, HttpError(500, "Error signing in"))
    /\ UNCHANGED <<env, sessions, users, nextUid, outbox, started>>

Signin(w) ==
    \/ SigninWithPassword(w)
    \/ SigninGetUser(w)

\* ------------------------------------------------------ token exchange
\* The custom tokens and refresh tokens a caller can present: one naming an
\* account, or a string that is no token at all.
PresentedTokens == Uids \cup {NoUid}

\* What accounts:signInWithCustomToken can answer to a custom token.
SignInWithCustomTokenResponses(custom_token) ==
    IF UserExists(custom_token)
    THEN {[status_code |-> 200, message |-> "-", uid |-> custom_token]}
    ELSE {[status_code |-> 400, message |-> m, uid |-> NoUid] :
             m \in {"INVALID_CUSTOM_TOKEN", "CREDENTIAL_MISMATCH"}}

\* POST /exchange-custom-token arrives at a free worker.
ExchangeCustomTokenStart(w) ==
    /\ Free(w)
    /\ \E custom_token \in PresentedTokens :
          Accept(w, [NoReq EXCEPT !.op = "exchange", !.uid = custom_token])
    /\ pc' = [pc EXCEPT ![w] = "ex_post"]
    /\ UNCHANGED <<env, sessions, users, nextUid, outbox>>

\* The refresh tokens the backend has handed to callers, in the order it
\* issued them: a token is its index, issued for one account, and "valid",
\* "rotated" (replaced by a later one) or "revoked".  The tokens of the
\* sign-ins a handler makes on its own behalf never leave the handler and
\* are not kept.
Session(uid) == [uid |-> uid, state |-> "valid"]

IssueSession(uid) == Append(sessions, Session(uid))

\* exchange_custom_token: a non-200 answer is raised as 400 with the
\* backend's message as detail (line 378 to 380); a 200 answer is returned
\* with the backend's refreshToken (line 382 to 386).
ExchangeCustomToken(w) ==
    /\ pc[w] = "ex_post"
    /\ IF ~env.FIREBASE_API_KEY
       THEN /\ Reply(w, ConfigurationError("Firebase API key"))
            /\ sessions' = sessions
       ELSE \/ \E r \in SignInWithCustomTokenResponses(req[w].uid) :
                 IF ~ResponseOk(r.status_code)
                 THEN /\ Reply(w, HttpError(400, r.message))
                      /\ sessions' = sessions
                 ELSE /\ sessions' = IssueSession(r.uid)
                      /\ Reply(w, [NoResp EXCEPT
                                     !.status = 200, !.detail = "ok",
                                     !.token = "id", !.token_uid = r.uid,
                                     !.refresh_token = Len(sessions) + 1])
            \/ /\ Reply(w, HttpError(500, "Error exchanging token"))
               /\ sessions' = sessions
    /\ UNCHANGED <<env, users, nextUid, outbox, started>>

\* The refresh tokens a caller can present: one the backend issued, or
\* something that never was a token (NoSession).
PresentedRefreshTokens == 0..MaxRequests

\* What the secure-token endpoint can answer to a refresh token.  A token
\* it honours is answered with a new ID token and either the same refresh
\* token or a new one that replaces it, as its rotation policy has it; such
\* a token may also have run out.  A revoked token is TOKEN_EXPIRED, a
\* replaced or unknown one INVALID_REFRESH_TOKEN.
RefreshResponses(refresh_token) ==
    LET Rejected(m) == {[status_code |-> 400, message |-> m, uid |-> NoUid,
                         refresh_token |-> NoSession]} IN
    IF refresh_token \notin DOMAIN sessions
    THEN Rejected("INVALID_REFRESH_TOKEN")
    ELSE LET s == sessions[refresh_token] IN
         IF s.state = "rotated" THEN Rejected("INVALID_REFRESH_TOKEN")
         ELSE IF s.state = "revoked" THEN Rejected("TOKEN_EXPIRED")
         ELSE IF ~UserExists(s.uid) THEN Rejected("USER_NOT_FOUND")
         ELSE Rejected("TOKEN_EXPIRED")
              \cup {[status_code |-> 200, message |-> "-", uid |-> s.uid,
                     refresh_token |-> t] :
                       t \in {refresh_token, Len(sessions) + 1}}

\* The backend's tokens after it gave answer r to refresh_token.
SessionsAfterRefresh(refresh_token, r) ==
    IF r.status_code = 200 /\ r.refresh_token # refresh_token
    THEN Append([sessions EXCEPT ![refresh_token].state = "rotated"],
                Session(r.uid))
    ELSE sessions

\* refresh_token, line 411 to 417: status and detail of the error raised.
RefreshError(error_message) ==
    IF error_message = "TOKEN_EXPIRED"
    THEN HttpError(401, "Refresh token has expired")
    ELSE IF error_message = "INVALID_REFRESH_TOKEN"
    THEN HttpError(401, "Invalid refresh token")
    ELSE HttpError(400, error_message)

\* Mutant of RefreshTokenReturned: the caller is handed back the refresh
\* token it sent.
RefreshTokenReturnedOld(refresh_token, data) == refresh_token

\* refresh_token, line 421: the refresh token of the answer is the one in
\* the backend's response.
RefreshTokenReturned(refresh_token, data) == data.refresh_token

\* POST /refresh-token arrives at a free worker.
RefreshTokenStart(w) ==
    /\ Free(w)
    /\ \E refresh_token \in PresentedRefreshTokens :
          Accept(w, [NoReq EXCEPT !.op = "refresh", !.uid = refresh_token])
    /\ pc' = [pc EXCEPT ![w] = "rf_post"]
    /\ UNCHANGED <<env, sessions, users, nextUid, outbox>>

\* refresh_token
RefreshToken(w) ==
    /\ pc[w] = "rf_post"
    /\ IF ~env.FIREBASE_API_KEY
       THEN /\ Reply(w, ConfigurationError("Firebase API key"))
            /\ sessions' = sessions
       ELSE \/ \E r \in RefreshResponses(req[w].uid) :
                 /\ sessions' = SessionsAfterRefresh(req[w].uid, r)
                 /\ IF ~ResponseOk(r.status_code)
                    THEN Reply(w, RefreshError(r.message))
                    ELSE Reply(w, [NoResp EXCEPT
                                     !.status = 200, !.detail = "ok",
                                     !.token = "id", !.token_uid = r.uid,
                                     !.refresh_token =
                                        RefreshTokenReturned(req[w].uid, r)])
            \/ /\ Reply(w, HttpError(500, "Error refreshing token"))
               /\ sessions' = sessions
    /\ UNCHANGED <<env, users, nextUid, outbox, started>>

\* ------------------------------------------- sending the verification mail
\* send_verification_email and resend_verification_email are the same code
\* but for the look-up (by uid, by e-mail) and the wording of the answers.
\* Neither has an `except HTTPException: raise`, so an HTTPException raised
\* inside the try block is caught by `except Exception` and raised again as
\* a 500 whose detail carries the first one's text.
VerificationErrorPrefix(op) ==
    IF op = "send_verification" THEN "Error sending verification email"
    ELSE "Error resending verification email"

VerificationError(w, text) ==
    HttpError(500, VerificationErrorPrefix(req[w].op) \o text)

\* POST /send-verification-email/{uid} arrives at a free worker.
SendVerificationEmailStart(w) ==
    /\ Free(w)
    /\ \E uid \in Uids :
          Accept(w, [NoReq EXCEPT !.op = "send_verification", !.uid = uid])
    /\ pc' = [pc EXCEPT ![w] = "sv_get"]
    /\ UNCHANGED <<env, sessions, users, nextUid, outbox>>

\* POST /resend-verification-email?email=.. arrives at a free worker.
ResendVerificationEmailStart(w) ==
    /\ Free(w)
    /\ \E email \in Emails :
          Accept(w, [NoReq EXCEPT !.op = "resend_verification", !.email = email])
    /\ pc' = [pc EXCEPT ![w] = "sv_get"]
    /\ UNCHANGED <<env, sessions, users, nextUid, outbox>>

\* The accounts the handler's look-up returns: auth.get_user(uid) in
\* send_verification_email, auth.get_user_by_email(email) in
\* resend_verification_email.
VerificationLookup(w) ==
    IF req[w].op = "send_verification"
    THEN {u \in DOMAIN users : u = req[w].uid}
    ELSE GetUserByEmail(req[w].email)

\* Line 165 to 168 (215 to 218): read the account, then the API key.  The
\* record's email_verified is read but not looked at.
SendVerificationGetUser(w) ==
    /\ pc[w] = "sv_get"
    /\ IF VerificationLookup(w) = {}
       THEN Reply(w, UserNotFoundError(w))
       ELSE IF ~env.FIREBASE_API_KEY
       THEN Reply(w, VerificationError(w, ": Firebase API key not configured"))
       ELSE \E u \in VerificationLookup(w) :
               /\ req' = [req EXCEPT ![w].uid = u,
                                     ![w].rec_verified = users[u].email_verified]
               /\ Goto(w, "sv_mint")
    /\ UNCHANGED <<env, sessions, users, nextUid, outbox, started>>

\* Line 173 (221): mint a custom token for the account.
SendVerificationMintToken(w) ==
    /\ pc[w] = "sv_mint"
    /\ \/ /\ req' = req
          /\ Goto(w, "sv_exchange")
       \/ Reply(w, VerificationError(w, ""))
    /\ UNCHANGED <<env, sessions, users, nextUid, outbox, started>>

\* Line 176 to 185 and 202 to 203 (224 to 233, 250 to 251): trade the custom
\* token for an ID token.
SendVerificationExchange(w) ==
    /\ pc[w] = "sv_exchange"
    /\ \/ \E r \in SignInWithCustomTokenResponses(req[w].uid) :
            IF r.status_code = 200
            THEN /\ req' = [req EXCEPT ![w].id_token = r.uid]
                 /\ Goto(w, "sv_send")
            ELSE Reply(w, VerificationError(w, ": Failed to get ID token"))
       \/ Reply(w, VerificationError(w, ""))
    /\ UNCHANGED <<env, sessions, users, nextUid, outbox, started>>

\* Line 200 to 201 (248 to 249): the answer when accounts:sendOobCode did
\* not answer 200.
VerificationDispatchFailed(w) ==
    VerificationError(w, ": Failed to send verification email")

\* Line 188 to 201 (236 to 249): accounts:sendOobCode with the ID token.
SendVerificationSendOobCode(w) ==
    /\ pc[w] = "sv_send"
    /\ \/ /\ UserExists(req[w].id_token)
          /\ outbox' = outbox \cup {req[w].id_token}
          /\ req' = [req EXCEPT ![w].did = @ \cup {"send"},
                                ![w].rec_verified = FALSE,
                                ![w].id_token = NoUid, ![w].uid = NoUid]
          /\ pc' = [pc EXCEPT ![w] = "done"]
          /\ resp' = [resp EXCEPT ![w] =
                [NoResp EXCEPT !.status = 200, !.uid = req[w].uid,
                     !.detail = "Verification email sent successfully",
                     !.email_verified = req[w].rec_verified]]
       \/ /\ outbox' = outbox
          /\ Reply(w, VerificationDispatchFailed(w))
       \/ /\ outbox' = outbox
          /\ Reply(w, VerificationError(w, ""))
    /\ UNCHANGED <<env, sessions, users, nextUid, started>>

SendVerificationEmail(w) ==
    \/ SendVerificationGetUser(w)
    \/ SendVerificationMintToken(w)
    \/ SendVerificationExchange(w)
    \/ SendVerificationSendOobCode(w)

GoogleSignin(w) ==
    \/ VerifyGoogleToken(w)
    \/ LookupUser(w)
    \/ LinkExistingUser(w)
    \/ CreateOAuthUser(w)
    \/ LinkNewUser(w)
    \/ MintOAuthToken(w)

Next ==
    \E w \in Workers :
        \/ GoogleSigninStart(w, TokensCore)
        \/ GoogleSignin(w)
        \/ SignupStart(w, Emails)
        \/ Signup(w)
        \/ VerifyEmailCallbackStart(w)
        \/ VerifyEmailCallback(w)
        \/ RequireVerificationStart(w)
        \/ RequireVerification(w)
        \/ CheckVerificationStart(w)
        \/ CheckVerificationStatus(w)
        \/ DeleteUserStart(w)
        \/ DeleteUser(w)

\* Account creation, verification and deletion together, with the Google
\* tokens of one subject.
Spec == Init /\ [][Next]_vars

\* Google sign-in and account deletion only; FIREBASE_API_KEY is not read.
InitOAuth ==
    /\ env \in [GOOGLE_OAUTH_CLIENT_ID : BOOLEAN, FIREBASE_API_KEY : {TRUE}]
    /\ InitStore

NextOAuth ==
    \E w \in Workers :
        \/ GoogleSigninStart(w, Tokens)
        \/ GoogleSignin(w)
        \/ DeleteUserStart(w)
        \/ DeleteUser(w)

SpecOAuth == InitOAuth /\ [][NextOAuth]_vars

\* The two account-creating operations, with no deletion, in a fully
\* configured process.
InitAccounts ==
    /\ env = [GOOGLE_OAUTH_CLIENT_ID |-> TRUE, FIREBASE_API_KEY |-> TRUE]
    /\ InitStore

NextAccounts ==
    \E w \in Workers :
        \/ GoogleSigninStart(w, TokensVerified)
        \/ GoogleSignin(w)
        \/ SignupStart(w, Emails)
        \/ Signup(w)

SpecAccounts == InitAccounts /\ [][NextAccounts]_vars

\* Sign-up, sign-in and account deletion, with the OAuth client configured.
InitLogin ==
    /\ env \in [GOOGLE_OAUTH_CLIENT_ID : {TRUE}, FIREBASE_API_KEY : BOOLEAN]
    /\ InitStore

NextLogin ==
    \E w \in Workers :
        \/ SignupStart(w, Emails)
        \/ Signup(w)
        \/ SigninStart(w)
        \/ Signin(w)
        \/ DeleteUserStart(w)
        \/ DeleteUser(w)

SpecLogin == InitLogin /\ [][NextLogin]_vars

\* The token operations next to sign-up, sign-in and account deletion.
NextTokens ==
    \E w \in Workers :
        \/ SignupStart(w, {"A@x.com"})
        \/ Signup(w)
        \/ SigninStart(w)
        \/ Signin(w)
        \/ ExchangeCustomTokenStart(w)
        \/ ExchangeCustomToken(w)
        \/ RefreshTokenStart(w)
        \/ RefreshToken(w)
        \/ DeleteUserStart(w)
        \/ DeleteUser(w)

SpecTokens == InitLogin /\ [][NextTokens]_vars

\* The verification of e-mail addresses: accounts come from sign-up and
\* from Google sign-in with one token that asserts a verified address.
TokensOne ==
    {t \in TokensVerified : t.sub = "g-1" /\ t.email = "a@x.com"}

NextVerification ==
    \E w \in Workers :
        \/ SignupStart(w, {"A@x.com"})
        \/ Signup(w)
        \/ GoogleSigninStart(w, TokensOne)
        \/ GoogleSignin(w)
        \/ SendVerificationEmailStart(w)
        \/ ResendVerificationEmailStart(w)
        \/ SendVerificationEmail(w)
        \/ VerifyEmailCallbackStart(w)
        \/ VerifyEmailCallback(w)

SpecVerification == InitLogin /\ [][NextVerification]_vars

\* ------------------------------------------------------------ signing out
\* The backend's tokens after auth.revoke_refresh_tokens(uid): every token
\* it still honoured for the account is revoked.
RevokeRefreshTokens(uid) ==
    [t \in DOMAIN sessions |->
        IF sessions[t].uid = uid /\ sessions[t].state = "valid"
        THEN [sessions[t] EXCEPT !.state = "revoked"]
        ELSE sessions[t]]

\* POST /signout/{uid} arrives at a free worker.
SignoutStart(w) ==
    /\ Free(w)
    /\ \E uid \in Uids :
          Accept(w, [NoReq EXCEPT !.op = "signout", !.uid = uid])
    /\ pc' = [pc EXCEPT ![w] = "so_revoke"]
    /\ UNCHANGED <<env, sessions, users, nextUid, outbox>>

\* signout
Signout(w) ==
    /\ pc[w] = "so_revoke"
    /\ IF ~UserExists(req[w].uid)
       THEN /\ Reply(w, HttpError(404, "User not found"))
            /\ sessions' = sessions
       ELSE \/ /\ sessions' = RevokeRefreshTokens(req[w].uid)
               /\ Reply(w, [NoResp EXCEPT !.status = 200, !.detail = "ok"])
            \/ /\ Reply(w, HttpError(500, "Error signing out"))
               /\ sessions' = sessions
    /\ UNCHANGED <<env, users, nextUid, outbox, started>>

\* --------------------------------------------------- verifying an ID token
\* An ID token comes with a refresh token, from the exchange or the refresh
\* that issued both: it is named by that refresh token's index.  The ID
\* tokens a caller can present are the issued ones and something that never
\* was a token (NoSession).
PresentedIdTokens == 0..MaxRequests

\* auth.verify_id_token(token), line 337: signature and claims of a token
\* the backend issued check out; whether its refresh token has been revoked
\* or replaced since is not looked at.
VerifyIdToken(token) == token \in DOMAIN sessions

\* Mutant of VerifyTokenUserDeleted: the error of get_user is left to the
\* outer except clause.
VerifyTokenUserDeletedRaises(uid) == HttpError(401, "Invalid token")

\* verify_token, line 350 to 356: the account of the token is gone.
VerifyTokenUserDeleted(uid) ==
    [NoResp EXCEPT !.status = 200, !.uid = uid,
                   !.detail = "User has been deleted",
                   !.valid = FALSE, !.user_exists = FALSE]

\* POST /verify-token arrives at a free worker.
VerifyTokenStart(w) ==
    /\ Free(w)
    /\ \E token \in PresentedIdTokens :
          Accept(w, [NoReq EXCEPT !.op = "verify_token", !.presented = token])
    /\ pc' = [pc EXCEPT ![w] = "vt_verify"]
    /\ UNCHANGED <<env, sessions, users, nextUid, outbox>>

\* verify_token, line 337 to 338 and 358 to 359: decode the token; it may
\* have run out.
VerifyTokenDecode(w) ==
    /\ pc[w] = "vt_verify"
    /\ \/ /\ VerifyIdToken(req[w].presented)
          /\ req' = [req EXCEPT ![w].uid = sessions[req[w].presented].uid]
          /\ Goto(w, "vt_get")
       \/ Reply(w, HttpError(401, "Invalid token"))
    /\ UNCHANGED <<env, sessions, users, nextUid, outbox, started>>

\* verify_token, line 341 to 356: look the account of the token up.
VerifyTokenGetUser(w) ==
    /\ pc[w] = "vt_get"
    /\ LET uid == req[w].uid IN
       Reply(w, IF UserExists(uid)
                THEN [NoResp EXCEPT !.status = 200, !.uid = uid,
                                    !.detail = "ok",
                                    !.valid = TRUE, !.user_exists = TRUE]
                ELSE VerifyTokenUserDeleted(uid))
    /\ UNCHANGED <<env, sessions, users, nextUid, outbox, started>>

VerifyToken(w) ==
    \/ VerifyTokenDecode(w)
    \/ VerifyTokenGetUser(w)

\* ------------------------------------------------- refreshing, scoped
\* The service after one sign-up and one exchange of its token: one
\* password account and the refresh token the exchange returned.
InitRefresh ==
    /\ env \in [GOOGLE_OAUTH_CLIENT_ID : {TRUE}, FIREBASE_API_KEY : BOOLEAN]
    /\ users = (1 :> UserRecord("A@x.com", FALSE, "pw123456"))
    /\ sessions = <<Session(1)>>
    /\ nextUid = 2
    /\ outbox = {}
    /\ pc = [w \in Workers |-> "idle"]
    /\ req = [w \in Workers |-> NoReq]
    /\ resp = [w \in Workers |-> NoResp]
    /\ started = 0

NextRefresh ==
    \E w \in Workers :
        \/ RefreshTokenStart(w)
        \/ RefreshToken(w)
        \/ SignoutStart(w)
        \/ Signout(w)
        \/ DeleteUserStart(w)
        \/ DeleteUser(w)

SpecRefresh == InitRefresh /\ [][NextRefresh]_vars

\* ------------------------------------------ the dispatch inside sign-up
\* signup, line 69 and 81: both requests.post calls of the dispatch are made
\* by the handler itself, one after the other, with no timeout.  When the
\* backend never answers, the call never returns and the handler stays in
\* it.
SignupDispatchBlocks(w) ==
    /\ pc[w] \in {"su_signin", "su_send"}
    /\ env.FIREBASE_API_KEY
    /\ pc' = [pc EXCEPT ![w] = "su_blocked"]
    /\ UNCHANGED <<env, sessions, users, nextUid, outbox, req, resp, started>>

NextDispatch ==
    \E w \in Workers :
        \/ SignupStart(w, {"A@x.com"})
        \/ Signup(w)
        \/ SignupDispatchBlocks(w)
        \/ DeleteUserStart(w)
        \/ DeleteUser(w)

SpecDispatch == InitLogin /\ [][NextDispatch]_vars

\* -------------------------------------------- look-ups by uid, scoped
NextLookup ==
    \E w \in Workers :
        \/ SignupStart(w, {"A@x.com"})
        \/ Signup(w)
        \/ DeleteUserStart(w)
        \/ DeleteUser(w)
        \/ SendVerificationEmailStart(w)
        \/ SendVerificationEmail(w)
        \/ CheckVerificationStart(w)
        \/ CheckVerificationStatus(w)
        \/ RequireVerificationStart(w)
        \/ RequireVerification(w)

SpecLookup == InitLogin /\ [][NextLookup]_vars

\* ------------------------------------------------ account creation, scoped
\* One subject and e-mail under one issuer spelling, with every form of the
\* email_verified claim.
TokensClaims ==
    {t \in GoodTokens : /\ t.iss = "accounts.google.com" /\ t.sub = "g-1"
                        /\ t.email = "a@x.com"}

NextCreation ==
    \E w \in Workers :
        \/ SignupStart(w, Emails)
        \/ Signup(w)
        \/ GoogleSigninStart(w, TokensClaims)
        \/ GoogleSignin(w)

SpecCreation == InitLogin /\ [][NextCreation]_vars

\* ------------------------------------------ every request but the
\* verification callback, scoped to one e-mail address
TokensSameEmail == {t \in TokensVerified : t.email = "A@x.com"}

NextLifecycle ==
    \E w \in Workers :
        \/ SignupStart(w, {"A@x.com"})
        \/ Signup(w)
        \/ SigninStart(w)
        \/ Signin(w)
        \/ GoogleSigninStart(w, TokensSameEmail)
        \/ GoogleSignin(w)
        \/ ExchangeCustomTokenStart(w)
        \/ ExchangeCustomToken(w)
        \/ RefreshTokenStart(w)
        \/ RefreshToken(w)
        \/ SignoutStart(w)
        \/ Signout(w)
        \/ SendVerificationEmailStart(w)
        \/ SendVerificationEmail(w)
        \/ CheckVerificationStart(w)
        \/ CheckVerificationStatus(w)
        \/ RequireVerificationStart(w)
        \/ RequireVerification(w)
        \/ DeleteUserStart(w)
        \/ DeleteUser(w)

SpecLifecycle == InitLogin /\ [][NextLifecycle]_vars

\* ------------------------------ sign-in beside deletion and sign-up, scoped
\* From the state of InitRefresh, where the password account of A@x.com
\* exists: three requests are enough to delete it and create it again while
\* a sign-in is under way.
NextBinding ==
    \E w \in Workers :
        \/ SigninStart(w)
        \/ Signin(w)
        \/ SignupStart(w, {"A@x.com"})
        \/ Signup(w)
        \/ GoogleSigninStart(w, TokensSameEmail)
        \/ GoogleSignin(w)
        \/ DeleteUserStart(w)
        \/ DeleteUser(w)

SpecBinding == InitRefresh /\ [][NextBinding]_vars

\* ------------------------------------------- tokens of an account, scoped
\* From the state of InitRefresh: the account holds one refresh token and
\* the ID token that came with it.
NextSessions ==
    \E w \in Workers :
        \/ VerifyTokenStart(w)
        \/ VerifyToken(w)
        \/ RefreshTokenStart(w)
        \/ RefreshToken(w)
        \/ SignoutStart(w)
        \/ Signout(w)
        \/ DeleteUserStart(w)
        \/ DeleteUser(w)

SpecSessions == InitRefresh /\ [][NextSessions]_vars

\* The service after one sign-up, one exchange of its token and one
\* sign-out of the account: the refresh token the exchange returned has been
\* revoked.
InitRevoked ==
    /\ env \in [GOOGLE_OAUTH_CLIENT_ID : {TRUE}, FIREBASE_API_KEY : BOOLEAN]
    /\ users = (1 :> UserRecord("A@x.com", FALSE, "pw123456"))
    /\ sessions = <<[Session(1) EXCEPT !.state = "revoked"]>>
    /\ nextUid = 2
    /\ outbox = {}
    /\ pc = [w \in Workers |-> "idle"]
    /\ req = [w \in Workers |-> NoReq]
    /\ resp = [w \in Workers |-> NoResp]
    /\ started = 0

SpecRevoked == InitRevoked /\ [][NextSessions]_vars

\* ------------------------------------------------------- process start-up
\* main.py, line 12 and 13: importing the module runs init_firebase() and
\* init_google_oauth() before the application object exists.  The
\* deployment is the environment variables and the two files the
\* initialisers look for; every server process sees the same deployment.
OAuthCredsFiles == {"missing", "no_client_id", "ok"}

Deployments ==
    [GOOGLE_OAUTH_CLIENT_ID : BOOLEAN, FIREBASE_API_KEY : BOOLEAN,
     SERVICE_ACCOUNT_KEY_FILE : BOOLEAN, OAUTH_CREDS_FILE : OAuthCredsFiles]

\* init_firebase: FileNotFoundError when the service account key is not
\* there.
InitFirebaseRaises == ~env.SERVICE_ACCOUNT_KEY_FILE

\* init_google_oauth: nothing to do when the variable is set; otherwise
\* FileNotFoundError when the credentials file is not there and ValueError
\* when it holds no client id.
InitGoogleOAuthRaises ==
    /\ ~env.GOOGLE_OAUTH_CLIENT_ID
    /\ env.OAUTH_CREDS_FILE # "ok"

\* A server process imports main.py.  An initialiser that raises ends the
\* process; init_google_oauth exports the client id it read from the file.
StartUp(w) ==
    /\ pc[w] = "boot"
    /\ IF InitFirebaseRaises \/ InitGoogleOAuthRaises
       THEN /\ pc' = [pc EXCEPT ![w] = "crashed"]
            /\ env' = env
       ELSE /\ pc' = [pc EXCEPT ![w] = "idle"]
            /\ env' = [env EXCEPT !.GOOGLE_OAUTH_CLIENT_ID = TRUE]
    /\ UNCHANGED <<sessions, users, nextUid, outbox, req, resp, started>>

InitStartup ==
    /\ env \in Deployments
    /\ users = <<>>
    /\ sessions = <<>>
    /\ nextUid = 1
    /\ outbox = {}
    /\ pc = [w \in Workers |-> "boot"]
    /\ req = [w \in Workers |-> NoReq]
    /\ resp = [w \in Workers |-> NoResp]
    /\ started = 0

NextStartup ==
    \E w \in Workers :
        \/ StartUp(w)
        \/ GoogleSigninStart(w, TokensOne)
        \/ GoogleSignin(w)
        \/ SignupStart(w, {"a@x.com"})
        \/ Signup(w)

SpecStartup == InitStartup /\ [][NextStartup]_vars

\* ================================================================= claims
Done(w, op) == pc[w] = "done" /\ req[w].op = op

PairLinked(u, sub) == ProviderData(GoogleProvider, sub) \in users[u].provider_data

\* C1: a Google sign-in that finds its (provider, subject) pair already
\* linked to the account of its e-mail goes straight to token minting: it
\* writes nothing to the store, creates no account and no link, and answers
\* with the uid of the account it found.
C1_IdempotentLinking ==
    [][\A w \in Workers :
          /\ ( /\ pc[w] = "lookup" /\ pc'[w] # "lookup"
               /\ \E u \in GetUserByEmail(req[w].email) : PairLinked(u, req[w].sub) )
             => /\ pc'[w] = "mint"
                /\ users' = users /\ nextUid' = nextUid
                /\ req'[w].did = {}
                /\ req'[w].uid \in GetUserByEmail(req[w].email)
          /\ ( pc[w] = "mint" /\ pc'[w] # "mint" )
             => /\ users' = users /\ nextUid' = nextUid
                /\ resp'[w].status = 200 => resp'[w].uid = req[w].uid
      ]_vars

C1_Witness ==
    \E w \in Workers :
        /\ Done(w, "google") /\ resp[w].status = 200 /\ req[w].did = {}
        /\ DOMAIN users = {resp[w].uid}
        /\ users[resp[w].uid].provider_data
              = {ProviderData(GoogleProvider, req[w].sub)}

C3_DuplicateLoserCompletes ==
    \A w \in Workers :
        Done(w, "google")
            => resp[w].detail # "Error during Google signin: EMAIL_EXISTS"

\* C4: a (provider, subject) pair is linked to at most one account.
C4_ProviderPairUnique ==
    \A u1, u2 \in DOMAIN users :
        u1 # u2 => users[u1].provider_data \cap users[u2].provider_data = {}

\* C5: an account holds at most one link per provider.
C5_OneLinkPerProvider ==
    \A u \in DOMAIN users :
        \A p1, p2 \in users[u].provider_data :
            p1.provider_id = p2.provider_id => p1 = p2

\* C6: email_verified of an account never goes from true back to false.
C6_VerificationMonotonic ==
    [][\A u \in DOMAIN users :
          (u \in DOMAIN users' /\ users[u].email_verified)
              => users'[u].email_verified]_vars

C6_Witness ==
    \E w \in Workers :
        /\ Done(w, "verify_email")
        /\ resp[w].detail = "Email Already Verified"
        /\ UserExists(resp[w].uid)
        /\ users[resp[w].uid].password # NoPassword
        /\ users[resp[w].uid].email_verified

\* C7: for an existing account require_verification answers 403 exactly
\* when email_verified is false and 200 exactly when it is true, and it
\* leaves the store and the outbox as they were.
C7_GuardCorrectness ==
    [][\A w \in Workers :
          (pc[w] = "rv_get" /\ pc'[w] = "done")
          => /\ users' = users /\ outbox' = outbox /\ nextUid' = nextUid
             /\ UserExists(req[w].uid)
                => /\ (resp'[w].status = 403) <=> ~users[req[w].uid].email_verified
                   /\ (resp'[w].status = 200) <=> users[req[w].uid].email_verified
      ]_vars

C7_Witness ==
    \E w \in Workers :
        /\ Done(w, "require_verification") /\ resp[w].status = 403
        /\ UserExists(resp[w].uid) /\ ~users[resp[w].uid].email_verified

\* C8: once verify_email_callback has answered "Email Verified
\* Successfully!" for an account, that account is verified.
C8_CompleteVerificationVerifies ==
    \A w \in Workers :
        ( /\ Done(w, "verify_email")
          /\ resp[w].detail = "Email Verified Successfully!"
          /\ UserExists(resp[w].uid) )
        => users[resp[w].uid].email_verified

\* C9: the verification-mail dispatch of signup never ends the handler and
\* never touches the account: every dispatch step, failed or not, leads on
\* towards token minting, and a signup that created its account ends with
\* the account and a token unless the minting itself fails.
C9_SignupAbsorbsDispatch ==
    /\ [][\A w \in Workers :
            (pc[w] \in {"su_signin", "su_send"} /\ pc'[w] # pc[w])
            => /\ pc'[w] \in {"su_send", "su_mint"}
               /\ users' = users
               /\ req'[w].uid = req[w].uid
               /\ resp'[w] = resp[w]
        ]_vars
    /\ [](\A w \in Workers :
            (Done(w, "signup") /\ "create" \in req[w].did)
            => \/ /\ resp[w].status = 200 /\ resp[w].token = "custom"
                  /\ resp[w].token_uid = resp[w].uid
               \/ resp[w].detail = "Error creating user")

C9_Witness ==
    \E w \in Workers :
        /\ Done(w, "signup") /\ resp[w].status = 200
        /\ ~env.FIREBASE_API_KEY
        /\ UserExists(resp[w].uid) /\ resp[w].uid \notin outbox

\* C10: a Google sign-in reaches the account look-up, the creation, the
\* linking and the token minting only with a token the verifier accepts;
\* while it verifies, and after a rejection, it has written nothing.
TokenAcceptable(tok) ==
    /\ env.GOOGLE_OAUTH_CLIENT_ID
    /\ tok.sig_ok /\ tok.aud = ConfiguredClientId
    /\ tok.iss \in AcceptedIssuers

C10_NoMutationBeforeVerification ==
    \A w \in Workers :
        req[w].op = "google"
        => /\ ( \/ pc[w] \in {"lookup", "link", "create", "link_new", "mint"}
                \/ req[w].did # {}
                \/ resp[w].status = 200 )
              => TokenAcceptable(req[w].tok)
           /\ pc[w] = "verify" => req[w].did = {}
           /\ ~TokenAcceptable(req[w].tok) => req[w].did = {}

C10_Witness ==
    \E w \in Workers :
        /\ Done(w, "google") /\ resp[w].status = 401
        /\ ~TokenAcceptable(req[w].tok)
        /\ DOMAIN users # {}

\* C11: a sign-in with an e-mail and password the backend does not sign in
\* (unknown e-mail, or a password other than the account's) ends at once
\* with the 400 answer of an authentication failure, unless the backend
\* could not be reached; it hands out no token, and no account, link or
\* email_verified changes.
C11_WrongPasswordFails ==
    [][\A w \in Workers :
          ( /\ pc[w] = "si_signin" /\ pc'[w] # "si_signin"
            /\ env.FIREBASE_API_KEY
            /\ \A u \in GetUserByEmail(req[w].email) :
                  users[u].password # req[w].password )
          => /\ pc'[w] = "done"
             /\ resp'[w].status = 400 \/ resp'[w].detail = "Error signing in"
             /\ resp'[w].status # 200 /\ resp'[w].token = "none"
             /\ users' = users /\ nextUid' = nextUid /\ outbox' = outbox
      ]_vars

C11_Witness ==
    \E w \in Workers :
        /\ Done(w, "signin") /\ resp[w].status = 400
        /\ resp[w].detail = "Invalid password"
        /\ \E u \in GetUserByEmail(req[w].email) :
              users[u].password \notin {req[w].password, NoPassword}

\* C12: a Google sign-in whose e-mail belongs to a password account that
\* does not hold its (provider, subject) pair takes that account, adds the
\* pair to it and changes nothing else, and creates no account; when a
\* sign-up and a Google sign-in for the same e-mail have both succeeded they
\* returned the same uid, that account holds the pair, and it is the only
\* account of the e-mail.
C12_LinkToPasswordAccount ==
    /\ [][\A w \in Workers :
            /\ ( /\ pc[w] = "lookup" /\ pc'[w] # "lookup"
                 /\ \E u \in GetUserByEmail(req[w].email) :
                       /\ users[u].password # NoPassword
                       /\ ~PairLinked(u, req[w].sub) )
               => /\ pc'[w] = "link"
                  /\ req'[w].uid \in GetUserByEmail(req[w].email)
                  /\ users' = users /\ nextUid' = nextUid
            /\ ( pc[w] = "link" /\ pc'[w] = "mint" )
               => /\ DOMAIN users' = DOMAIN users /\ nextUid' = nextUid
                  /\ \A u \in DOMAIN users :
                        users'[u] =
                           IF u = req[w].uid
                           THEN [users[u] EXCEPT !.provider_data = @ \cup
                                   {ProviderData(GoogleProvider, req[w].sub)}]
                           ELSE users[u]
        ]_vars
    /\ [](\A w, w1 \in Workers :
            ( /\ Done(w, "google") /\ resp[w].status = 200
              /\ Done(w1, "signup") /\ resp[w1].status = 200
              /\ req[w1].email = req[w].email )
            => /\ resp[w].uid = resp[w1].uid
               /\ "create" \notin req[w].did
               /\ UserExists(resp[w].uid)
               /\ PairLinked(resp[w].uid, req[w].sub)
               /\ GetUserByEmail(req[w].email) = {resp[w].uid})

C12_Witness ==
    \E w, w1 \in Workers :
        /\ Done(w1, "signup") /\ resp[w1].status = 200
        /\ Done(w, "google") /\ resp[w].status = 200
        /\ req[w].email = req[w1].email /\ req[w].did = {"link"}
        /\ users[resp[w1].uid].password = req[w1].password
        /\ users[resp[w1].uid].provider_data
              = {ProviderData(GoogleProvider, req[w].sub)}

\* C13: once a sign-up has succeeded and its account has not been deleted, a
\* sign-in with the same e-mail and password is signed in by the backend as
\* that account unless the backend cannot serve it, and it is never told
\* that the e-mail or the password is wrong; the sign-in then answers 200
\* with the uid the sign-up returned and the ID token of the password
\* exchange it has just made.
C13_SignupThenLogin ==
    [][\A w \in Workers :
          /\ \A w1 \in Workers :
                ( /\ pc[w] = "si_signin" /\ pc'[w] # "si_signin"
                  /\ env.FIREBASE_API_KEY
                  /\ Done(w1, "signup") /\ resp[w1].status = 200
                  /\ req[w1].email = req[w].email
                  /\ req[w1].password = req[w].password
                  /\ UserExists(resp[w1].uid) )
                => \/ pc'[w] = "si_get" /\ req'[w].id_token = resp[w1].uid
                   \/ /\ pc'[w] = "done"
                      /\ resp'[w].detail \in {"Error signing in",
                                              "TOO_MANY_ATTEMPTS_TRY_LATER"}
          /\ ( pc[w] = "si_get" /\ pc'[w] = "done" /\ UserExists(req[w].id_token) )
             => /\ resp'[w].status = 200
                /\ resp'[w].uid = req[w].id_token
                /\ resp'[w].token = "id"
                /\ resp'[w].token_uid = req[w].id_token
      ]_vars

C13_Witness ==
    \E w, w1 \in Workers :
        /\ Done(w1, "signup") /\ resp[w1].status = 200
        /\ Done(w, "signin") /\ resp[w].status = 200
        /\ req[w].email = req[w1].email /\ req[w].password = req[w1].password
        /\ resp[w].uid = resp[w1].uid /\ resp[w].token = "id"
        /\ resp[w].token_uid = resp[w1].uid

\* C14: e-mails are matched exactly as spelled.  A Google sign-in links
\* only to an account whose e-mail is spelled as its token asserts and
\* leaves every other account as it was; a sign-up and a Google sign-in that
\* succeeded for e-mails differing in case ended with two distinct accounts,
\* each holding its own spelling.
C14_CaseSensitiveMatch ==
    /\ [][\A w \in Workers :
            ( pc[w] \in {"link", "link_new"} /\ pc'[w] = "mint" )
            => /\ users[req[w].uid].email = req[w].tok.email
               /\ \A u \in DOMAIN users :
                     users[u].email # req[w].tok.email => users'[u] = users[u]
        ]_vars
    /\ [](\A w, w1 \in Workers :
            ( /\ Done(w1, "signup") /\ resp[w1].status = 200
              /\ Done(w, "google") /\ resp[w].status = 200
              /\ req[w1].email # req[w].tok.email )
            => /\ resp[w].uid # resp[w1].uid
               /\ users[resp[w1].uid].email = req[w1].email
               /\ users[resp[w].uid].email = req[w].tok.email)

C14_Witness ==
    \E w, w1 \in Workers :
        /\ Done(w1, "signup") /\ resp[w1].status = 200
        /\ req[w1].email = "A@x.com"
        /\ Done(w, "google") /\ resp[w].status = 200
        /\ req[w].tok.email = "a@x.com"
        /\ Cardinality(DOMAIN users) = 2
        /\ users[resp[w1].uid].provider_data = {}
        /\ PairLinked(resp[w].uid, req[w].sub)

BackendMessages ==
    {"EMAIL_NOT_FOUND", "INVALID_PASSWORD", "INVALID_LOGIN_CREDENTIALS",
     "TOO_MANY_ATTEMPTS_TRY_LATER", "INVALID_CUSTOM_TOKEN",
     "CREDENTIAL_MISMATCH", "TOKEN_EXPIRED", "INVALID_REFRESH_TOKEN",
     "USER_NOT_FOUND"}

C16_NoRawBackendError ==
    \A w \in Workers :
        ( pc[w] = "done"
          /\ req[w].op \in {"signup", "signin", "exchange", "refresh"} )
        => resp[w].detail \notin BackendMessages

\* C17 as stated: every token a successful sign-up or sign-in answers with
\* is the output of an exchange, never a minted custom token.
C17_NoMintedTokenToPasswordCaller ==
    \A w \in Workers :
        ( pc[w] = "done" /\ req[w].op \in {"signup", "signin"}
          /\ resp[w].status = 200 )
        => resp[w].token = "id"

\* C17 amended: the token of a successful sign-in is the ID token of the
\* password exchange that request made, never a minted custom token; the
\* token of a successful sign-up is the custom token minted for the account
\* it created.
C17_LoginTokenFromExchange ==
    /\ [][\A w \in Workers :
            ( pc[w] = "si_get" /\ pc'[w] = "done" /\ resp'[w].status = 200 )
            => /\ resp'[w].token = "id"
               /\ resp'[w].token_uid = req[w].id_token
               /\ req[w].id_token # NoUid
        ]_vars
    /\ [](\A w \in Workers :
            /\ (Done(w, "signin") /\ resp[w].status = 200)
                  => resp[w].token = "id"
            /\ (Done(w, "signup") /\ resp[w].status = 200)
                  => /\ resp[w].token = "custom"
                     /\ resp[w].token_uid = resp[w].uid)

C17_Witness ==
    \E w, w1 \in Workers :
        /\ Done(w1, "signup") /\ resp[w1].status = 200
        /\ resp[w1].token = "custom"
        /\ Done(w, "signin") /\ resp[w].status = 200
        /\ resp[w].token = "id" /\ resp[w].token_uid = resp[w1].token_uid

\* C18: a request to send or resend the verification mail that found its
\* account already verified has dispatched no mail.
C18_SendOnlyWhenUnverified ==
    \A w \in Workers :
        ( /\ pc[w] = "done"
          /\ req[w].op \in {"send_verification", "resend_verification"}
          /\ "send" \in req[w].did )
        => ~resp[w].email_verified

\* C19: a request to send the verification mail for an existing account is
\* not answered with a failure because the token exchange or the dispatch
\* failed.
C19_SendFailureAbsorbed ==
    \A w \in Workers :
        Done(w, "send_verification")
        => resp[w].detail \notin
              {"Error sending verification email: Failed to get ID token",
               "Error sending verification email: Failed to send verification email"}

\* C20: verify_email_callback called with a valid code of an account that
\* is verified changes nothing and answers with the page "Email Already
\* Verified", which is neither the page of a first verification nor one of
\* the error pages.
C20_AlreadyVerifiedNoOp ==
    [][\A w \in Workers :
          ( /\ pc[w] = "ve_check" /\ pc'[w] = "done"
            /\ req[w].mode = "verifyEmail"
            /\ req[w].uid \in outbox /\ UserExists(req[w].uid)
            /\ users[req[w].uid].email_verified )
          => /\ users' = users /\ outbox' = outbox /\ nextUid' = nextUid
             /\ resp'[w].status = 200
             /\ resp'[w].detail = "Email Already Verified"
             /\ resp'[w].detail \notin {"Email Verified Successfully!",
                                        "Verification Failed",
                                        "Invalid Verification Link"}
             /\ resp'[w].uid = req[w].uid
      ]_vars

C20_Witness ==
    \E w, w1 \in Workers :
        /\ w # w1
        /\ Done(w, "verify_email") /\ Done(w1, "verify_email")
        /\ resp[w].detail = "Email Already Verified"
        /\ resp[w1].detail = "Email Already Verified"
        /\ resp[w].uid = resp[w1].uid
        /\ UserExists(resp[w].uid) /\ users[resp[w].uid].email_verified

\* C21: while no OAuth client id is configured, verifying a Google token
\* ends the sign-in with the 500 of a configuration failure whatever the
\* token, where a token the verifier rejects ends it with 401; in both cases
\* no account, link, refresh token or mail is written.
C21_UnconfiguredVerifierFails ==
    [][\A w \in Workers :
          (pc[w] = "verify" /\ pc'[w] # "verify" /\ ~TokenAcceptable(req[w].tok))
          => /\ pc'[w] = "done"
             /\ resp'[w].status =
                   (IF env.GOOGLE_OAUTH_CLIENT_ID THEN 401 ELSE 500)
             /\ resp'[w].token = "none"
             /\ req'[w].did = {}
             /\ users' = users /\ sessions' = sessions /\ outbox' = outbox
             /\ env' = env]_vars

C21_Witness ==
    \E w \in Workers :
        /\ Done(w, "google") /\ resp[w].status = 500
        /\ ~env.GOOGLE_OAUTH_CLIENT_ID
        /\ req[w].tok \in GoodTokens

\* C22: a server process completes its start-up whatever part of the
\* configuration (OAuth client id, backend credentials) is absent; the
\* absence is reported when an operation first needs the value.
C22_StartupCompletes == \A w \in Workers : pc[w] # "crashed"

\* C23: a refresh the backend grants answers with a new ID token and a
\* refresh token the backend honours for the same account; once the backend
\* has replaced a refresh token it stays replaced, and every later refresh
\* that presents it fails with 401 "Invalid refresh token".
C23_RefreshRotation ==
    [][/\ \A t \in DOMAIN sessions :
             sessions[t].state = "rotated"
             => t \in DOMAIN sessions' /\ sessions'[t].state = "rotated"
       /\ \A w \in Workers :
             (pc[w] = "rf_post" /\ pc'[w] = "done")
             => LET old == req[w].uid
                    new == resp'[w].refresh_token IN
                /\ (old \in DOMAIN sessions /\ sessions[old].state = "rotated")
                   => /\ resp'[w].status \in {401, 500}
                      /\ resp'[w].status = 401
                         => resp'[w].detail = "Invalid refresh token"
                      /\ resp'[w].token = "none"
                /\ resp'[w].status = 200
                   => /\ resp'[w].token = "id"
                      /\ old \in DOMAIN sessions /\ new \in DOMAIN sessions'
                      /\ sessions[old].state = "valid"
                      /\ sessions'[new].state = "valid"
                      /\ sessions'[new].uid = sessions[old].uid
                      /\ resp'[w].token_uid = sessions[old].uid
                      /\ new # old => sessions'[old].state = "rotated"]_vars

\* One worker was refused the replaced token 1 while the other was granted
\* a refresh with its replacement, token 2, and was handed token 3.
C23_Witness ==
    \E w1, w2 \in Workers :
        /\ Done(w1, "refresh") /\ resp[w1].detail = "Invalid refresh token"
        /\ Done(w2, "refresh") /\ resp[w2].status = 200
        /\ resp[w2].refresh_token = 3
        /\ Len(sessions) = 3
        /\ sessions[1].state = "rotated" /\ sessions[2].state = "rotated"

\* C24: the verification dispatch of a sign-up does not block it: no
\* sign-up is held in a dispatch call the backend never answers, its
\* response undelivered.
C24_DispatchNeverBlocksSignup ==
    \A w \in Workers :
        ~(req[w].op = "signup" /\ pc[w] = "su_blocked" /\ resp[w].status = 0)

\* C25: every sign-up that answers 200 has had a verification mail
\* dispatched to the account it created.
C25_SignupDispatchesToItsAccount ==
    \A w \in Workers :
        (Done(w, "signup") /\ resp[w].status = 200)
        => resp[w].uid \in outbox

\* C26: sending a verification mail, checking and requiring verification
\* for a uid that names no account each end with 404 "User not found" and
\* write nothing: no mail, no account, link or refresh token changes.
\* Requiring verification of an account that exists never answers 404: an
\* unverified one is the 403.
C26_UnknownUidIsNotFound ==
    [][\A w \in Workers :
          /\ ( /\ \/ pc[w] = "sv_get" /\ req[w].op = "send_verification"
                  \/ pc[w] = "cv_get"
                  \/ pc[w] = "rv_get"
               /\ pc'[w] # pc[w]
               /\ ~UserExists(req[w].uid) )
             => /\ pc'[w] = "done"
                /\ resp'[w].status = 404
                /\ resp'[w].detail = "User not found"
                /\ req'[w].did = {}
                /\ users' = users /\ outbox' = outbox /\ sessions' = sessions
          /\ (pc[w] = "rv_get" /\ pc'[w] # pc[w] /\ UserExists(req[w].uid))
             => resp'[w].status =
                   (IF users[req[w].uid].email_verified THEN 200 ELSE 403)]_vars

\* A mail was asked for and verification was required of uids that name no
\* account (one of them deleted).
C26_Witness ==
    \E w1, w2 \in Workers :
        /\ Done(w1, "send_verification") /\ resp[w1].status = 404
        /\ Done(w2, "require_verification") /\ resp[w2].status = 404
        /\ nextUid > 1

\* C27: the account a sign-up creates starts with email_verified false; the
\* account a Google sign-in creates starts with the email_verified claim of
\* its token, false when the token has no such claim.
C27_InitialVerificationState ==
    [][\A w \in Workers :
          /\ (pc[w] = "su_create" /\ pc'[w] = "su_signin")
             => /\ nextUid \notin DOMAIN users
                /\ DOMAIN users' = DOMAIN users \cup {nextUid}
                /\ users'[nextUid].email_verified = FALSE
          /\ (pc[w] = "create" /\ pc'[w] = "link_new")
             => /\ nextUid \notin DOMAIN users
                /\ DOMAIN users' = DOMAIN users \cup {nextUid}
                /\ users'[nextUid].email_verified =
                      (req[w].tok.email_verified = "true")]_vars

\* A Google sign-in with a token that has no email_verified claim created an
\* account, which is unverified.
C27_Witness ==
    \E w \in Workers :
        /\ Done(w, "google") /\ resp[w].status = 200
        /\ "create" \in req[w].did
        /\ req[w].tok.email_verified = "absent"
        /\ resp[w].uid \in DOMAIN users
        /\ ~users[resp[w].uid].email_verified

\* C28: with the client id configured, a Google sign-in gets past the
\* verifier only with a token whose issuer is one of the accepted strings
\* and whose audience is the configured client id; with any other issuer or
\* audience it ends with 401, not a 500, and has created and linked nothing.
C28_IssuerAndAudienceGate ==
    \A w \in Workers :
        LET tok == req[w].tok
            Matches == /\ tok.iss \in AcceptedIssuers
                       /\ tok.aud = ConfiguredClientId IN
        req[w].op = "google"
        => /\ ( \/ pc[w] \in {"lookup", "link", "create", "link_new", "mint"}
                \/ resp[w].status = 200 )
              => Matches
           /\ (pc[w] = "done" /\ env.GOOGLE_OAUTH_CLIENT_ID /\ ~Matches)
              => /\ resp[w].status = 401
                 /\ resp[w].token = "none"
                 /\ req[w].did = {}

\* One sign-in was refused for its audience and one for its issuer, both
\* with a sound signature.
C28_Witness ==
    \E w1, w2 \in Workers :
        /\ env.GOOGLE_OAUTH_CLIENT_ID
        /\ Done(w1, "google") /\ resp[w1].status = 401
        /\ req[w1].tok.sig_ok /\ req[w1].tok.aud # ConfiguredClientId
        /\ Done(w2, "google") /\ resp[w2].status = 401
        /\ req[w2].tok.sig_ok /\ req[w2].tok.iss \notin AcceptedIssuers

\* C29: an account leaves the store only in the step of a delete_user
\* request that names it and answers 200, and its provider links leave with
\* it: in every other step each account keeps every (provider, subject)
\* pair it had.
C29_OnlyDeleteRemoves ==
    [][\A u \in DOMAIN users :
          IF u \in DOMAIN users'
          THEN users[u].provider_data \subseteq users'[u].provider_data
          ELSE \E w \in Workers :
                  /\ req[w].op = "delete_user" /\ req[w].uid = u
                  /\ pc[w] = "du_delete" /\ pc'[w] = "done"
                  /\ resp'[w].status = 200]_vars

\* An account linked to two subjects has been through a sign-out and a
\* second Google sign-in and holds both links.
C29_Witness ==
    \E u \in DOMAIN users, w1, w2 \in Workers :
        /\ Cardinality(users[u].provider_data) = 2
        /\ Done(w1, "google") /\ resp[w1].status = 200 /\ resp[w1].uid = u
        /\ Done(w2, "signout") /\ resp[w2].status = 200

\* C30: a refresh the backend refuses is answered with one of the two
\* token-lifecycle failures, 401 "Refresh token has expired" or 401 "Invalid
\* refresh token" (a 500 is the service's own failure: configuration or
\* transport).
C30_RefusedRefreshIsExpiredOrInvalid ==
    \A w \in Workers :
        (Done(w, "refresh") /\ resp[w].status \notin {200, 500})
        => /\ resp[w].status = 401
           /\ resp[w].detail \in {"Refresh token has expired",
                                  "Invalid refresh token"}

\* C31: the provider named in the answer of a successful Google sign-in is
\* "google.com", the provider id its link is stored under.
C31_ReportedProviderIsLinkProvider ==
    \A w \in Workers :
        (Done(w, "google") /\ resp[w].status = 200)
        => resp[w].provider = GoogleProvider

\* C32: the steps of a Google sign-in that found an account for its e-mail
\* leave every account's e-mail, email_verified and password as they were,
\* remove no account and no link, and add at most one link, to the account
\* found; the sign-in answers with that account's uid and the
\* email_verified it read, whatever the token's claims say.
C32_ReconciliationFrame ==
    [][\A w \in Workers :
          (req[w].op = "google" /\ pc[w] \in {"link", "mint"}
             /\ pc'[w] # pc[w] /\ pc'[w] \in {"mint", "done"})
          => /\ DOMAIN users' = DOMAIN users /\ nextUid' = nextUid
             /\ \A u \in DOMAIN users :
                   /\ users'[u].email = users[u].email
                   /\ users'[u].email_verified = users[u].email_verified
                   /\ users'[u].password = users[u].password
                   /\ users[u].provider_data \subseteq users'[u].provider_data
                   /\ users'[u].provider_data \ users[u].provider_data
                         \subseteq (IF u = req[w].uid /\ pc[w] = "link"
                                    THEN {ProviderData(GoogleProvider, req[w].sub)}
                                    ELSE {})
             /\ (pc'[w] = "done" /\ resp'[w].status = 200
                   /\ "create" \notin req[w].did)
                => /\ resp'[w].uid = req[w].uid
                   /\ resp'[w].email_verified = req[w].rec_verified]_vars

\* A token that asserts a verified e-mail was linked to an unverified
\* password account: the account and the answer are still unverified.
C32_Witness ==
    \E w \in Workers :
        /\ Done(w, "google") /\ resp[w].status = 200
        /\ req[w].did = {"link"}
        /\ req[w].tok.email_verified = "true"
        /\ UserExists(resp[w].uid)
        /\ users[resp[w].uid].password # NoPassword
        /\ ~users[resp[w].uid].email_verified
        /\ ~resp[w].email_verified

\* C33: in every 200 answer of a sign-up, a sign-in or a Google sign-in the
\* token is one issued for the account whose uid is in the same answer.
C33_TokenBoundToReturnedAccount ==
    \A w \in Workers :
        ( pc[w] = "done" /\ req[w].op \in {"signup", "signin", "google"}
          /\ resp[w].status = 200 )
        => resp[w].token_uid = resp[w].uid

\* C34: a Google sign-in whose link call fails after its create_user call
\* succeeded ends with a 500, having added no link, and leaves the new
\* account in the store.  While that account exists, a later Google sign-in with
\* the same e-mail and subject finds it, creates nothing, adds the pair to
\* it and, when it answers 200, answers with that account's uid.
C34_ConvergesAfterFailedLink ==
    [][\A w \in Workers :
          /\ (pc[w] = "link_new" /\ pc'[w] = "done")
             => /\ resp'[w].status = 500
                /\ users' = users /\ nextUid' = nextUid
                /\ "link" \notin req'[w].did
          /\ \A w1 \in Workers :
                ( /\ Done(w1, "google") /\ resp[w1].status = 500
                  /\ req[w1].did = {"create"}
                  /\ req[w].op = "google"
                  /\ req[w].email = req[w1].email /\ req[w].sub = req[w1].sub
                  /\ pc'[w] # pc[w]
                  /\ GetUserByEmail(req[w].email) # {} )
                => /\ pc[w] = "lookup"
                      => /\ pc'[w] \in {"link", "mint"}
                         /\ req'[w].uid \in GetUserByEmail(req[w].email)
                         /\ users' = users /\ nextUid' = nextUid
                   /\ (pc[w] = "link" /\ pc'[w] = "mint")
                      => /\ nextUid' = nextUid
                         /\ DOMAIN users' = DOMAIN users
                         /\ GetUserByEmail(req[w].email) = {req[w].uid}
                         /\ ProviderData(GoogleProvider, req[w].sub)
                               \in users'[req[w].uid].provider_data
                   /\ (pc[w] = "mint" /\ resp'[w].status = 200)
                      => resp'[w].uid = req[w].uid]_vars

\* The first sign-in created the only account there has been and failed to
\* link it; the second, with the same claims, linked it and answered with it.
C34_Witness ==
    \E w, w1 \in Workers :
        /\ Done(w1, "google") /\ resp[w1].status = 500
        /\ req[w1].did = {"create"}
        /\ Done(w, "google") /\ resp[w].status = 200
        /\ req[w].did = {"link"}
        /\ req[w].email = req[w1].email /\ req[w].sub = req[w1].sub
        /\ nextUid = 2 /\ DOMAIN users = {1} /\ resp[w].uid = 1
        /\ PairLinked(1, req[w].sub)

\* C35: a sign-up that answers with a failure has created no account.
C35_FailedSignupCreatedNothing ==
    \A w \in Workers :
        (Done(w, "signup") /\ resp[w].status # 200)
        => "create" \notin req[w].did

\* C36: verify-token answers valid only while the account of the token is
\* in the store; for a token that decodes and whose account has been deleted
\* it answers 200 with valid false and user_exists false, not a 401.
C36_DeletedAccountTokenNotValid ==
    [][\A w \in Workers :
          (pc[w] = "vt_get" /\ pc'[w] = "done")
          => /\ resp'[w].valid => UserExists(req[w].uid)
             /\ ~UserExists(req[w].uid)
                => /\ resp'[w].status = 200
                   /\ ~resp'[w].valid /\ ~resp'[w].user_exists
                   /\ resp'[w].uid = req[w].uid]_vars

\* The account of token 1 was deleted, and verify-token then answered for
\* that token.
C36_Witness ==
    \E w, w1 \in Workers :
        /\ Done(w1, "delete_user") /\ resp[w1].status = 200 /\ resp[w1].uid = 1
        /\ Done(w, "verify_token") /\ req[w].presented = 1
        /\ resp[w].status = 200 /\ resp[w].uid = 1
        /\ ~resp[w].valid /\ ~resp[w].user_exists

\* C37: once a sign-out has revoked the tokens of an account, verify-token
\* does not answer valid for an ID token issued with one of them and a
\* refresh does not grant one of them; the sign-out itself leaves every
\* account as it was.
C37_RevokedTokensRejected ==
    [][\A w \in Workers :
          /\ ( /\ pc[w] = "vt_get" /\ pc'[w] = "done"
               /\ sessions[req[w].presented].state = "revoked" )
             => ~resp'[w].valid
          /\ ( /\ pc[w] = "rf_post" /\ pc'[w] = "done"
               /\ req[w].uid \in DOMAIN sessions
               /\ sessions[req[w].uid].state = "revoked" )
             => resp'[w].status # 200
          /\ (pc[w] = "so_revoke" /\ pc'[w] = "done")
             => users' = users]_vars

====
